---- MODULE Spec2Model ----
(***************************************************************************)
(* Model of the spectrum analyzer (spectrum-analyzer/src/analyzer.rs) and  *)
(* of the sample buffer it consumes.                                       *)
(*                                                                         *)
(* Numbers.  An f32 is modelled by its exact value, the dyadic rational    *)
(* m * 2^e, written <<m, e>> with m odd (or <<0, 0>> for zero), so that    *)
(* equality of tuples is equality of values.  The arithmetic the analyzer  *)
(* performs itself (i as f32 * sample_rate / fft_size as f32, re^2 + im^2, *)
(* sqrt) is modelled with IEEE round-to-nearest-even to a 24 bit           *)
(* significand.  Exponents stay far inside the normal range for the values *)
(* used here, so subnormals and infinities do not arise.  NaN is the one   *)
(* f32 that is no number: F32NaN, which every operation hands on.          *)
(***************************************************************************)
EXTENDS Integers, Sequences, FiniteSets

(***************************************************************************)
(* f32 arithmetic                                                          *)
(***************************************************************************)

Abs(x) == IF x < 0 THEN -x ELSE x

\* A let binding of the code: The({e : x \in {vx}}) is e with x standing for
\* the value of vx, worked out once, as `let x = vx; e` is.
The(S) == CHOOSE v \in S : TRUE

Sign(x) == IF x < 0 THEN -1 ELSE 1

\* Canonical form of m * 2^e: the significand is odd, zero is <<0, 0>>.
RECURSIVE F32Norm(_, _)
F32Norm(m, e) ==
    IF m = 0 THEN <<0, 0>>
    ELSE IF m % 2 = 0 THEN F32Norm(m \div 2, e + 1)
    ELSE <<m, e>>

\* Number of bits of a natural number.
RECURSIVE BitLen(_)
BitLen(n) == IF n = 0 THEN 0 ELSE 1 + BitLen(n \div 2)

\* (mag + s) * 2^e, for a natural mag and 0 <= s < 1 with s > 0 iff sticky,
\* rounded to a 24 bit significand, ties to even.  The result is <<q, e'>>,
\* not yet canonical.
F32RoundMag(mag, e, sticky) ==
    LET k == BitLen(mag) - 24 IN
    IF k <= 0 THEN <<mag, e>>
    ELSE LET q    == mag \div (2 ^ k)
             r    == mag % (2 ^ k)
             half == 2 ^ (k - 1)
             up   == \/ r > half
                     \/ r = half /\ (sticky \/ q % 2 = 1)
         IN  <<IF up THEN q + 1 ELSE q, e + k>>

\* The f32 nearest to m * 2^e.
F32Round(m, e) ==
    LET r == F32RoundMag(Abs(m), e, FALSE) IN F32Norm(Sign(m) * r[1], r[2])

\* `i as f32` for an integer of at most 24 bits.
F32FromInt(i) == F32Norm(i, 0)

F32Zero == F32FromInt(0)

\* The integer an integral f32 stands for.
F32ToInt(a) == a[1] * (2 ^ a[2])

\* NaN.  No number has the significand 0 with another exponent than 0.
F32NaN == <<0, 255>>

IsNaN(a) == a = F32NaN

\* a >= 0.0, which is false of NaN.
F32GeZero(a) == ~IsNaN(a) /\ a[1] >= 0

\* The product of two naturals below 2^24 as <<hi, lo>>, hi * 2^24 + lo,
\* from their 12 bit halves.
WideProduct(a, b) ==
    LET ah  == a \div 4096
        al  == a % 4096
        bh  == b \div 4096
        bl  == b % 4096
        mid == ah * bl + al * bh
        low == (mid % 4096) * 4096 + al * bl
    IN  <<ah * bh + mid \div 4096 + low \div (2 ^ 24), low % (2 ^ 24)>>

\* a * b: the exact 48 bit product, then one rounding.  A product by zero
\* or by a power of two is exact.
F32Mul(a, b) ==
    IF IsNaN(a) \/ IsNaN(b) THEN F32NaN
    ELSE IF a[1] = 0 \/ b[1] = 0 THEN F32Zero
    ELSE IF Abs(a[1]) = 1 THEN <<a[1] * b[1], a[2] + b[2]>>
    ELSE IF Abs(b[1]) = 1 THEN <<a[1] * b[1], a[2] + b[2]>>
    ELSE LET p    == WideProduct(Abs(a[1]), Abs(b[1]))
             sgn  == Sign(a[1]) * Sign(b[1])
             e    == a[2] + b[2]
             drop == IF BitLen(p[1]) > 6 THEN BitLen(p[1]) - 6 ELSE 0
             r    == F32RoundMag(p[1] * (2 ^ (24 - drop)) + p[2] \div (2 ^ drop),
                                 e + drop, p[2] % (2 ^ drop) # 0)
         IN  F32Norm(sgn * r[1], r[2])

\* |a| in units of 2^g, cut off below the unit: <<magnitude, cut>> with cut
\* true iff something was cut off.
F32Aligned(a, g) ==
    IF a[2] >= g THEN <<Abs(a[1]) * (2 ^ (a[2] - g)), FALSE>>
    ELSE IF g - a[2] >= 30 THEN <<0, TRUE>>
    ELSE <<Abs(a[1]) \div (2 ^ (g - a[2])), Abs(a[1]) % (2 ^ (g - a[2])) # 0>>

\* a + b and a - b: the exact sum, then one rounding.  The operands are
\* added in units 29 bits below the top bit of the larger one, where the
\* larger is exact and what is cut off the smaller only decides ties.
F32Add(a, b) ==
    IF IsNaN(a) \/ IsNaN(b) THEN F32NaN
    ELSE IF a[1] = 0 THEN b
    ELSE IF b[1] = 0 THEN a
    ELSE LET ta  == BitLen(Abs(a[1])) + a[2]
             tb  == BitLen(Abs(b[1])) + b[2]
             g   == (IF ta > tb THEN ta ELSE tb) - 29
             xa  == F32Aligned(a, g)
             xb  == F32Aligned(b, g)
             sum == Sign(a[1]) * xa[1] + Sign(b[1]) * xb[1]
             cut == IF xa[2] THEN Sign(a[1]) ELSE IF xb[2] THEN Sign(b[1]) ELSE 0
         IN  IF cut = 0 THEN F32Round(sum, g)
             ELSE LET mag == IF cut = Sign(sum) THEN Abs(sum) ELSE Abs(sum) - 1
                      r   == F32RoundMag(mag, g, TRUE)
                  IN  F32Norm(Sign(sum) * r[1], r[2])

F32Sub(a, b) == IF IsNaN(b) THEN F32NaN ELSE F32Add(a, <<-b[1], b[2]>>)

\* Long division: quotient bits are produced until the quotient has 26 bits,
\* the remainder gives the sticky bit.  st = <<q, r, k>> with
\* n = (q + r / d) * d * 2^(-k).
RECURSIVE F32DivSteps(_, _)
F32DivSteps(st, d) ==
    IF st[1] >= 2 ^ 25 THEN st
    ELSE F32DivSteps(<<2 * st[1] + ((2 * st[2]) \div d), (2 * st[2]) % d, st[3] + 1>>, d)

\* a / b for b # 0; NaN for 0 / 0.
F32Div(a, b) ==
    IF IsNaN(a) \/ IsNaN(b) \/ (a[1] = 0 /\ b[1] = 0) THEN F32NaN
    ELSE IF a[1] = 0 THEN F32Zero
    ELSE LET n  == Abs(a[1])
             d  == Abs(b[1])
             st == F32DivSteps(<<n \div d, n % d, 0>>, d)
             r  == F32RoundMag(st[1], a[2] - b[2] - st[3], st[2] # 0)
         IN  F32Norm(Sign(a[1]) * Sign(b[1]) * r[1], r[2])

\* Integer square root by digits: st = <<root, rem>> of the bits consumed so
\* far; `bits` is the number of bit pairs of m still to bring down.
RECURSIVE ISqrtSteps(_, _, _)
ISqrtSteps(st, m, pairs) ==
    IF pairs = 0 THEN st
    ELSE LET two   == (m \div (4 ^ (pairs - 1))) % 4
             rem   == 4 * st[2] + two
             trial == 4 * st[1] + 1
         IN  IF rem >= trial
             THEN ISqrtSteps(<<2 * st[1] + 1, rem - trial>>, m, pairs - 1)
             ELSE ISqrtSteps(<<2 * st[1], rem>>, m, pairs - 1)

\* Further root bits (zero pairs brought down) until the root has 26 bits.
\* st = <<root, rem, k>>.
RECURSIVE SqrtExtend(_)
SqrtExtend(st) ==
    IF st[1] >= 2 ^ 25 THEN st
    ELSE LET rem   == 4 * st[2]
             trial == 4 * st[1] + 1
         IN  IF rem >= trial
             THEN SqrtExtend(<<2 * st[1] + 1, rem - trial, st[3] + 1>>)
             ELSE SqrtExtend(<<2 * st[1], rem, st[3] + 1>>)

\* sqrt(a), correctly rounded; NaN for NaN and for a < 0.
F32Sqrt(a) ==
    IF IsNaN(a) \/ a[1] < 0 THEN F32NaN
    ELSE IF a[1] = 0 THEN F32Zero
    ELSE LET odd == a[2] % 2 # 0
             m   == IF odd THEN 2 * a[1] ELSE a[1]
             e   == IF odd THEN a[2] - 1 ELSE a[2]
             s0  == ISqrtSteps(<<0, 0>>, m, (BitLen(m) + 1) \div 2)
             st  == SqrtExtend(<<s0[1], s0[2], 0>>)
             r   == F32RoundMag(st[1], (e \div 2) - st[3], st[2] # 0)
         IN  F32Norm(r[1], r[2])

(***************************************************************************)
(* The transform.  fft.process (crate rustfft, whose kernels depend on the  *)
(* platform) is modelled by its contract, the unnormalized forward discrete*)
(* Fourier transform X[k] = SUM_n x[n] * exp(-2 pi i k n / N), computed in *)
(* f32 as the crate's plain Dft algorithm computes it: the twiddle factor  *)
(* of index a is the cosine and sine of the f64 angle (-2 pi / N) * a,     *)
(* each rounded to f64 and then to f32, and each bin is summed in f32,     *)
(* sample by sample.  The angle is worked out as the f64 operations round  *)
(* it, and its cosine and sine in fixed point with 70 fractional bits.     *)
(***************************************************************************)

\* A natural number too wide for one integer is a sequence of digits of the
\* base BigBase, the most significant first.
BigBase == 2 ^ 14

BigBaseBits == 14

\* The digit of weight BigBase^k.
BigDigit(x, k) == IF k \in 0 .. Len(x) - 1 THEN x[Len(x) - k] ELSE 0

\* Bit p of x, bit 0 the least significant.
BigBit(x, p) == (BigDigit(x, p \div BigBaseBits) \div (2 ^ (p % BigBaseBits))) % 2

\* The BigBaseBits bits of x from bit p up, as one digit.
BigWindow(x, p) ==
    BigDigit(x, p \div BigBaseBits) \div (2 ^ (p % BigBaseBits))
    + (BigDigit(x, p \div BigBaseBits + 1) % (2 ^ (p % BigBaseBits)))
      * (2 ^ (BigBaseBits - (p % BigBaseBits)))

\* The w least significant digits of x / 2^p.
BigShiftRight(x, p, w) == [i \in 1 .. w |-> BigWindow(x, p + BigBaseBits * (w - i))]

\* Whether x has a bit set below bit p.
BigAnyBelow(x, p) == \E b \in 0 .. p - 1 : BigBit(x, b) = 1

\* The number of bits of x.
BigBitLen(x) ==
    IF \A i \in 1 .. Len(x) : x[i] = 0 THEN 0
    ELSE The({ BigBaseBits * (Len(x) - i) + BitLen(x[i]) :
               i \in {CHOOSE i \in 1 .. Len(x) :
                          x[i] # 0 /\ \A j \in 1 .. i - 1 : x[j] = 0} })

\* Digits with carries or borrows to take, as a number: raw + carry.
RECURSIVE BigCarry(_, _)
BigCarry(raw, carry) ==
    IF raw = <<>> THEN <<>>
    ELSE The({ Append(BigCarry(SubSeq(raw, 1, Len(raw) - 1), t \div BigBase),
                      t % BigBase) :
               t \in {raw[Len(raw)] + carry} })

\* x * a for a natural a below BigBase, one digit wider than x.
BigTimes(x, a) == BigCarry([i \in 1 .. Len(x) + 1 |-> IF i = 1 THEN 0 ELSE x[i - 1] * a], 0)

\* x - y for x >= y of the same width.
BigSub(x, y) == BigCarry([i \in 1 .. Len(x) |-> x[i] - y[i]], 0)

\* x < y, both of the same width.
BigLess(x, y) ==
    \E i \in 1 .. Len(x) : x[i] < y[i] /\ \A j \in 1 .. i - 1 : x[j] = y[j]

\* <<quotient, remainder>> of x by a natural n, 0 < n < 2^17: long division.
RECURSIVE BigDiv(_, _)
BigDiv(x, n) ==
    IF x = <<>> THEN <<<<>>, 0>>
    ELSE The({ <<Append(head[1], (head[2] * BigBase + x[Len(x)]) \div n),
                 (head[2] * BigBase + x[Len(x)]) % n>> :
               head \in {BigDiv(SubSeq(x, 1, Len(x) - 1), n)} })

\* An f64 above 0 is <<x, e>>, the number x * 2^e, x of at most F64Bits
\* bits in F64Digits digits.
F64Bits == 53

F64Digits == 4

\* Zero digits appended to a dividend, so that the quotient by a block
\* length has more than F64Bits bits.
F64Guard == <<0, 0, 0>>

\* The f64 nearest to x * 2^e (ties to even), sticky telling that the
\* number is a little more than x.
F64Round(vx, sticky, e) ==
    The({ IF len <= F64Bits THEN <<BigShiftRight(x, 0, F64Digits), e>>
          ELSE The({ LET rest == sticky \/ BigAnyBelow(x, len - F64Bits - 1)
                         up   == /\ BigBit(x, len - F64Bits - 1) = 1
                                 /\ (rest \/ keep[F64Digits] % 2 = 1)
                     IN  <<BigCarry(keep, IF up THEN 1 ELSE 0), e + len - F64Bits>> :
                     keep \in {BigShiftRight(x, len - F64Bits, F64Digits)} }) :
          x \in {vx}, len \in {BigBitLen(vx)} })

\* x / n as the f64 division does it, for a natural n, 0 < n < 2^17.
F64DivNat(x, n) ==
    The({ F64Round(d[1], d[2] # 0, x[2] - BigBaseBits * Len(F64Guard)) :
          d \in {BigDiv(x[1] \o F64Guard, n)} })

\* x * a as the f64 multiplication does it, for a natural a below BigBase.
F64MulNat(x, a) == F64Round(BigTimes(x[1], a), FALSE, x[2])

\* std::f64::consts::PI, 0x400921FB54442D18: 0x1921FB54442D18 * 2^-51.
F64Pi == <<<<1608, 8117, 4368, 11544>>, -51>>

\* pi itself to PiWideBits fractional bits, 0x3.243F6A8885A308D313198A2E0370.
PiWideBits == 112

PiWide == <<3, 2319, 13992, 8726, 8968, 13508, 12696, 10424, 880>>

\* The size of the angle of the twiddle factor of index a > 0 for length n:
\* constant = -2 pi / n, angle = constant * a, both in f64.
F64Angle(a, n) == F64MulNat(F64DivNat(<<F64Pi[1], F64Pi[2] + 1>>, n), a)

\* twice F64Angle(a, n), in units of 2^-PiWideBits.
AngleWide(a, n) ==
    The({ BigShiftRight(angle[1] \o <<0, 0, 0, 0, 0>>,
                        5 * BigBaseBits - (angle[2] + 1 + PiWideBits), Len(PiWide) + 1) :
          angle \in {F64Angle(a, n)} })

\* x + y, both of the same width.
BigAdd(x, y) == BigCarry([i \in 1 .. Len(x) |-> x[i] + y[i]], 0)

\* The sum of the digit products of x and y of weight BigBase^k, over the
\* digits 0 .. d of x.
RECURSIVE BigConv(_, _, _, _)
BigConv(x, y, k, d) ==
    IF d < 0 THEN 0
    ELSE BigDigit(x, d) * BigDigit(y, k - d) + BigConv(x, y, k, d - 1)

\* x * y, of the width of both together, for x of at most 7 digits.
BigMul(x, y) ==
    BigCarry([i \in 1 .. Len(x) + Len(y) |->
                 BigConv(x, y, Len(x) + Len(y) - i, Len(x) - 1)], 0)

\* The f32 nearest to (x + s) * 2^e, 0 <= s < 1 with s > 0 iff sticky.
BigToF32(vx, e, sticky) ==
    The({ LET drop == IF len > 30 THEN len - 30 ELSE 0
              top  == BigShiftRight(x, drop, 3)
              r    == F32RoundMag((top[1] * BigBase + top[2]) * BigBase + top[3],
                                  e + drop, sticky \/ BigAnyBelow(x, drop))
          IN  F32Norm(r[1], r[2]) :
          x \in {vx}, len \in {BigBitLen(vx)} })

\* `x as f32` for the f64 nearest to (x + s) * 2^e: the cosines and sines
\* are rounded to f64 by cos() and sin() and then to f32 by the cast.
F64ToF32(x, e, sticky) ==
    The({ BigToF32(d[1], d[2], FALSE) : d \in {F64Round(x, sticky, e)} })

\* A number below 2 in fixed point: one digit before the point and
\* TrigDigits digits after it.
TrigDigits == 5

TrigZero == <<0, 0, 0, 0, 0, 0>>

TrigOne == <<1, 0, 0, 0, 0, 0>>

TrigMul(a, b) == SubSeq(BigMul(a, b), 2, TrigDigits + 2)

\* acc + sgn * (term - term * x2 / (j (j + 1)) + ...): the alternating
\* series of cos x (from term 1, j = 1) and of sin x / x (from term 1,
\* j = 2) in x2 = x * x, summed until the terms vanish.
RECURSIVE TrigSeries(_, _, _, _, _)
TrigSeries(vacc, vterm, x2, j, sgn) ==
    The({ IF term = TrigZero THEN acc
          ELSE TrigSeries(IF sgn > 0 THEN BigAdd(acc, term) ELSE BigSub(acc, term),
                          BigDiv(TrigMul(term, x2), j * (j + 1))[1], x2, j + 2, -sgn) :
          acc \in {vacc}, term \in {vterm} })

F32Neg(a) == IF IsNaN(a) THEN a ELSE <<-a[1], a[2]>>

\* <<cos r, sin r>> as f32 for the rest r = sgn * mag * 2^-(PiWideBits + 1)
\* of an angle, at most an eighth of a turn.
RestCosSin(mag, sgn) ==
    The({ << F64ToF32(TrigSeries(TrigZero, TrigOne, x2, 1, 1),
                      -(TrigDigits * BigBaseBits), \E i \in 1 .. Len(mag) : mag[i] # 0),
             The({ <<sgn * s[1], s[2]>> :
                   s \in {F64ToF32(BigMul(TrigSeries(TrigZero, TrigOne, x2, 2, 1),
                                          SubSeq(mag, 2, Len(mag))),
                                   -(PiWideBits + 1 + TrigDigits * BigBaseBits),
                                   TRUE)} }) >> :
          x2 \in {The({ TrigMul(x, x) :
                        x \in {BigShiftRight(mag, PiWideBits + 1 - TrigDigits * BigBaseBits,
                                             TrigDigits + 1)} })} })

\* The twiddle factor of index a for length n as <<re, im>>, each an f32:
\* re = angle.cos() as f32 and im = angle.sin() as f32 for the f64
\* angle = (-2 pi / n) * a.  The size of the angle is q quarter turns and a
\* rest r of at most an eighth of a turn either way.
Twiddle(a, n) ==
    LET q == (8 * a + n) \div (2 * n)
    IN  The({ The({ LET c == CASE q % 4 = 0 -> cs[1] [] q % 4 = 1 -> F32Neg(cs[2])
                               [] q % 4 = 2 -> F32Neg(cs[1]) [] OTHER -> cs[2]
                        s == CASE q % 4 = 0 -> cs[2] [] q % 4 = 1 -> cs[1]
                               [] q % 4 = 2 -> F32Neg(cs[2]) [] OTHER -> F32Neg(cs[1])
                    IN  <<c, F32Neg(s)>> :
                    cs \in {IF BigLess(x, y) THEN RestCosSin(BigSub(y, x), -1)
                            ELSE RestCosSin(BigSub(x, y), 1)} }) :
              x \in {AngleWide(a, n)}, y \in {BigTimes(PiWide, q)} })

\* The twiddle factors exp(-2 pi i a / n) for a = 0 .. upto - 1, in order.
RECURSIVE TwiddleTable(_, _)
TwiddleTable(upto, n) ==
    IF upto = 0 THEN <<>>
    ELSE Append(TwiddleTable(upto - 1, n), Twiddle(upto - 1, n))

\* SUM over the first j inputs of data[j] * tw^(k * (j - 1)), as <<re, im>>,
\* in f32; k is the bin index, from 0.
RECURSIVE BinSum(_, _, _, _)
BinSum(data, tw, k, j) ==
    IF j = 0 THEN <<F32Zero, F32Zero>>
    ELSE LET rest == BinSum(data, tw, k, j - 1)
             t    == tw[((k * (j - 1)) % Len(data)) + 1]
             xr   == data[j][1]
             xi   == data[j][2]
         IN  <<F32Add(rest[1], F32Sub(F32Mul(xr, t[1]), F32Mul(xi, t[2]))),
               F32Add(rest[2], F32Add(F32Mul(xr, t[2]), F32Mul(xi, t[1])))>>

\* Bins 0 .. upto - 1 of the transform of data.
RECURSIVE DftBins(_, _, _)
DftBins(data, tw, upto) ==
    IF upto = 0 THEN <<>>
    ELSE LET sum == BinSum(data, tw, upto - 1, Len(data))
         IN  Append(DftBins(data, tw, upto - 1), sum)

\* Block sizes the host delivers: no samples, one sample (no bin), a power
\* of two, and a size whose bin spacing is not an f32.
BlockSizes == {0, 1, 4, 9}

\* The twiddle factors of the block sizes, <<n, table>> for each, worked
\* out once.
BlockTwiddles == {<<n, TwiddleTable(n, n)>> : n \in BlockSizes}

\* The twiddle factors exp(-2 pi i a / n) for a = 0 .. n - 1.
TwiddlesOf(n) ==
    IF n \in BlockSizes THEN (CHOOSE p \in BlockTwiddles : p[1] = n)[2]
    ELSE TwiddleTable(n, n)

\* The forward transform of a sequence of complex numbers <<re, im>>.
Dft(data) == DftBins(data, TwiddlesOf(Len(data)), Len(data))

\* fft.process(&mut data) for a plan of length len: a plan of length 0 does
\* nothing, and a valid buffer's channels have exactly len samples.  Every
\* bin is a sum over all the samples, so one NaN sample makes every bin NaN.
FftProcess(len, data) ==
    IF len = 0 THEN data
    ELSE IF \E j \in 1 .. Len(data) : IsNaN(data[j][1]) \/ IsNaN(data[j][2])
    THEN [j \in 1 .. Len(data) |-> <<F32NaN, F32NaN>>]
    ELSE Dft(data)

(***************************************************************************)
(* Inputs                                                                  *)
(***************************************************************************)

\* Channels per block: the host binds 0 .. MaxChannels channels.
MaxChannels == 2

\* Sample rates passed to new and set_sample_rate; nothing in their
\* signatures excludes zero.
SampleRates == {F32FromInt(0), F32FromInt(44100), F32FromInt(48000)}

\* Channel contents: silence, and a click (1, -1, 0, 0, ...).
Waveforms == {"silence", "click"}

\* Channel contents with a sample that is no number: NaN, 0, 0, ...
NanWaveforms == Waveforms \cup {"nan"}

\* Channel contents whose later samples are not 0: a pulse at sample 3
\* (0, 0, 0, 1, 0, ...) and steps of period 3 (1, 2, 0, 1, 2, 0, ...).
TransformWaveforms == Waveforms \cup {"late", "steps"}

Sample(w, n) ==
    IF w = "nan" /\ n = 0 THEN F32NaN
    ELSE IF w = "click" /\ n = 0 THEN F32FromInt(1)
    ELSE IF w = "click" /\ n = 1 THEN F32FromInt(-1)
    ELSE IF w = "late" /\ n = 3 THEN F32FromInt(1)
    ELSE IF w = "steps" THEN F32FromInt((n + 1) % 3)
    ELSE F32Zero

Channel(w, n) == [j \in 1 .. n |-> Sample(w, j - 1)]

(***************************************************************************)
(* State                                                                   *)
(***************************************************************************)

VARIABLES
    sample_rate,   \* Analyzer.sample_rate
    fft_planner,   \* Analyzer.fft_planner: the lengths with a cached plan
    buffer,        \* the Buffer: [num_samples, output_slices]
    ret,           \* what the most recent call returned ("unit": nothing)
    given,         \* history: the rate passed to the latest new / set_sample_rate
    last,          \* history: the latest process call on the bound contents
    prev,          \* history: right after a process call, the one before it
                   \* on the same contents
    samples_iter,  \* the SamplesIterator: [current_sample, samples_end]
    views,         \* the ChannelSamples values the caller holds
    chan_iters,    \* the ChannelSamplesIterator values the caller holds
    started,       \* history: the current_sample the SamplesIterator began with
    yielded,       \* history: the indices of the views next() yielded, in order
    nones,         \* history: how often next() has returned None (up to 2)
    handed,        \* history: the cells <<channel, sample>> handed out as &mut f32
    again          \* history: the cells handed out more than once

\* The per-sample iteration and what the caller made of it.
ivars == <<samples_iter, views, chan_iters, started, yielded, nones, handed, again>>

vars == <<sample_rate, fft_planner, buffer, ret, given, last, prev, ivars>>

\* No iteration: a SamplesIterator over no samples, nothing yielded.
NoIteration ==
    /\ samples_iter = [current_sample |-> 0, samples_end |-> 0]
    /\ views = {}
    /\ chan_iters = {}
    /\ started = 0
    /\ yielded = <<>>
    /\ nones = 0
    /\ handed = {}
    /\ again = {}

NoCall == [rate |-> <<0, 0>>, results |-> <<>>, made |-> FALSE]

Returned(op, results) == [op |-> op, err |-> "none", results |-> results]

\* Buffer::default(): no channels, no samples.
BufferDefault == [num_samples |-> 0, output_slices |-> <<>>]

\* buffer.samples()
Samples(buf) == buf.num_samples

\* buffer.as_slice()
AsSlice(buf) == buf.output_slices

(***************************************************************************)
(* Analyzer                                                                *)
(***************************************************************************)

\* Analyzer::sample_rate(): the field, read.
SampleRate == sample_rate

\* Variant: the setter drops the new value.
SetRateIgnored(old, rate) == old

\* Analyzer::new(sample_rate): the fields of a new analyzer.
AnalyzerNew(rate) == [sample_rate |-> rate, fft_planner |-> {}]

\* The field assigned by set_sample_rate(sample_rate).
SetRateField(old, rate) == rate

\* fft_planner.plan_fft_forward(len): the plan's length, and the planner
\* with the plan cached.
PlanFftForward(planner, len) == [len |-> len, planner |-> planner \cup {len}]

\* Variant: the imaginary parts start at 1.0.
ComplexSamplesImagOne(channel_samples) ==
    [j \in 1 .. Len(channel_samples) |-> <<channel_samples[j], F32FromInt(1)>>]

\* The scratch copy of one channel: Complex::new(sample, 0.0) per sample.
ComplexSamples(channel_samples) ==
    [j \in 1 .. Len(channel_samples) |-> <<channel_samples[j], F32Zero>>]

\* Variant: the bin count rounded up.
NumBinsRoundedUp(fft_size) == (fft_size + 1) \div 2

\* The number of bins kept: 0 .. fft_size / 2.
NumBins(fft_size) == fft_size \div 2

\* Variant: the difference of the squares, and no root.
MagnitudeSquareDifference(bin) ==
    F32Sub(F32Mul(bin[1], bin[1]), F32Mul(bin[2], bin[2]))

\* Variant: the sum of the absolute parts instead of the modulus.
MagnitudeManhattan(bin) ==
    F32Add(<<Abs(bin[1][1]), bin[1][2]>>, <<Abs(bin[2][1]), bin[2][2]>>)

\* Variant: the magnitude divided by the sample rate.
MagnitudePerRate(bin) ==
    IF sample_rate[1] = 0 THEN F32Zero
    ELSE F32Div(F32Sqrt(F32Add(F32Mul(bin[1], bin[1]), F32Mul(bin[2], bin[2]))),
                sample_rate)

\* (bin.re.powi(2) + bin.im.powi(2)).sqrt()
Magnitude(bin) == F32Sqrt(F32Add(F32Mul(bin[1], bin[1]), F32Mul(bin[2], bin[2])))

\* Variant: the divisor is the number of bins kept, fft_size / 2.
FrequencyOverBins(i, rate, fft_size) ==
    F32Div(F32Mul(F32FromInt(i), rate), F32FromInt(fft_size \div 2))

\* Variant: bins are numbered from 1.
FrequencyFromOne(i, rate, fft_size) ==
    F32Div(F32Mul(F32FromInt(i + 1), rate), F32FromInt(fft_size))

\* i as f32 * self.sample_rate / fft_size as f32, for the bin index i >= 0.
Frequency(i, rate, fft_size) ==
    F32Div(F32Mul(F32FromInt(i), rate), F32FromInt(fft_size))

\* The body of the loop over channels: one AnalyzerResult.
ChannelResult(rate, plan_len, channel_samples) ==
    The({ LET fft_size == Len(complex_samples)
          IN  [ magnitudes  |-> [i \in 1 .. NumBins(fft_size) |->
                                    Magnitude(complex_samples[i])],
                frequencies |-> [i \in 1 .. NumBins(fft_size) |->
                                    Frequency(i - 1, rate, fft_size)] ] :
          complex_samples \in {FftProcess(plan_len, ComplexSamples(channel_samples))} })

\* Variant: the transform runs on the samples themselves, which then hold
\* the real parts of the bins.
SlicesTransformedInPlace(plan_len, slices) ==
    [c \in 1 .. Len(slices) |->
        LET bins == FftProcess(plan_len, ComplexSamples(slices[c]))
        IN  [j \in 1 .. Len(slices[c]) |-> bins[j][1]]]

\* The channel slices after process: the transform ran on the copy.
SlicesAfterProcess(plan_len, slices) == slices

\* Variant: a block of no samples is refused before the channels are looked at.
AnalyzerProcessGuarded(rate, planner, buf) ==
    IF Samples(buf) = 0
    THEN [err |-> "InvalidBufferLength", results |-> <<>>,
          planner |-> planner, slices |-> AsSlice(buf)]
    ELSE LET plan == PlanFftForward(planner, Samples(buf))
         IN  [ err     |-> "none",
               results |-> [c \in 1 .. Len(AsSlice(buf)) |->
                               ChannelResult(rate, plan.len, AsSlice(buf)[c])],
               planner |-> plan.planner,
               slices  |-> AsSlice(buf) ]

\* Variant: the results are pushed at the front, last channel first.
AnalyzerProcessReversed(rate, planner, buf) ==
    LET plan == PlanFftForward(planner, Samples(buf))
        n    == Len(AsSlice(buf))
    IN  [ err     |-> "none",
          results |-> [c \in 1 .. n |->
                          ChannelResult(rate, plan.len, AsSlice(buf)[n + 1 - c])],
          planner |-> plan.planner,
          slices  |-> AsSlice(buf) ]

\* Variant: the results vector outlives the call, and each call pushes onto
\* what the one before left in it.
AnalyzerProcessAppending(rate, planner, buf) ==
    LET plan == PlanFftForward(planner, Samples(buf))
    IN  [ err     |-> "none",
          results |-> last.results \o
                         [c \in 1 .. Len(AsSlice(buf)) |->
                             ChannelResult(rate, plan.len, AsSlice(buf)[c])],
          planner |-> plan.planner,
          slices  |-> AsSlice(buf) ]

\* Analyzer::process(&mut buffer): what it returns and what it leaves.
AnalyzerProcess(rate, planner, buf) ==
    LET plan == PlanFftForward(planner, Samples(buf))
    IN  [ err     |-> "none",
          results |-> [c \in 1 .. Len(AsSlice(buf)) |->
                          ChannelResult(rate, plan.len, AsSlice(buf)[c])],
          planner |-> plan.planner,
          slices  |-> SlicesAfterProcess(plan.len, AsSlice(buf)) ]

(***************************************************************************)
(* Operations                                                              *)
(***************************************************************************)

Init ==
    \E rate \in SampleRates :
        /\ sample_rate = AnalyzerNew(rate).sample_rate
        /\ fft_planner = AnalyzerNew(rate).fft_planner
        /\ buffer = BufferDefault
        /\ ret = Returned("new", <<>>)
        /\ given = rate
        /\ last = NoCall
        /\ prev = NoCall
        /\ NoIteration

SetSampleRate(rate) ==
    /\ sample_rate' = SetRateField(sample_rate, rate)
    /\ given' = rate
    /\ ret' = Returned("unit", <<>>)
    /\ prev' = NoCall
    /\ UNCHANGED <<fft_planner, buffer, last, ivars>>

\* The host binds the block: buffer.set_slices(n, |slices| *slices = ...),
\* every channel of n samples.
SetSlices(n, waves) ==
    LET bound == [num_samples |-> n,
                  output_slices |-> [c \in 1 .. Len(waves) |-> Channel(waves[c], n)]]
    IN  /\ buffer' = bound
        /\ ret' = Returned("unit", <<>>)
        /\ last' = IF bound = buffer THEN last ELSE NoCall
        /\ prev' = NoCall
        /\ UNCHANGED <<sample_rate, fft_planner, given, ivars>>

Process ==
    \E out \in {AnalyzerProcess(sample_rate, fft_planner, buffer)} :
        /\ fft_planner' = out.planner
        /\ buffer' = [buffer EXCEPT !.output_slices = out.slices]
        /\ ret' = [op |-> "process", err |-> out.err, results |-> out.results]
        /\ last' = [rate |-> sample_rate, results |-> out.results, made |-> TRUE]
        /\ prev' = last
        /\ UNCHANGED <<sample_rate, given, ivars>>

WaveSeqs == UNION {[1 .. c -> Waveforms] : c \in 0 .. MaxChannels}

Next ==
    \/ \E rate \in SampleRates : SetSampleRate(rate)
    \/ \E n \in BlockSizes, waves \in WaveSeqs : SetSlices(n, waves)
    \/ Process

Spec == Init /\ [][Next]_vars

\* The analyzer at the rate it was made with, over blocks whose samples may
\* be NaN.
NanWaveSeqs == UNION {[1 .. c -> NanWaveforms] : c \in 0 .. MaxChannels}

NextAnyContent ==
    \/ \E n \in BlockSizes, waves \in NanWaveSeqs : SetSlices(n, waves)
    \/ Process

SpecAnyContent == Init /\ [][NextAnyContent]_vars

\* The analyzer over blocks of one channel of any of the contents, and of
\* two channels whose later samples are not 0.
TransformWaveSeqs == {<<w>> : w \in TransformWaveforms} \cup {<<"steps", "late">>}

NextTransform ==
    \/ \E n \in BlockSizes, waves \in TransformWaveSeqs : SetSlices(n, waves)
    \/ Process

SpecTransform == Init /\ [][NextTransform]_vars

(***************************************************************************)
(* The per-sample iteration (buffer/samples.rs).  A SamplesIterator walks   *)
(* the sample indices of the buffer and yields one ChannelSamples view per *)
(* index; a view turns into a ChannelSamplesIterator, which hands out one  *)
(* &mut f32 per channel.  The values next() returns are the caller's: the  *)
(* Item types borrow from the buffer, not from the iterator, so the caller *)
(* keeps each one for as long as it likes, or drops it.                    *)
(***************************************************************************)

\* Sample indices a buffer walked per sample has: 0 .. MaxIterSamples - 1.
MaxIterSamples == 3

\* Variant: the index advances by two.
SamplesIteratorNextSkipping(it) ==
    IF it.current_sample < it.samples_end
    THEN [item |-> <<[current_sample |-> it.current_sample]>>,
          it   |-> [it EXCEPT !.current_sample = @ + 2]]
    ELSE [item |-> <<>>, it |-> it]

\* Variant: the index samples_end is yielded too.
SamplesIteratorNextInclusive(it) ==
    IF it.current_sample <= it.samples_end
    THEN [item |-> <<[current_sample |-> it.current_sample]>>,
          it   |-> [it EXCEPT !.current_sample = @ + 1]]
    ELSE [item |-> <<>>, it |-> it]

\* SamplesIterator::next: the Option returned (<<>> is None, <<v>> is
\* Some(v)) and the iterator afterwards.
SamplesIteratorNext(it) ==
    IF it.current_sample < it.samples_end
    THEN [item |-> <<[current_sample |-> it.current_sample]>>,
          it   |-> [it EXCEPT !.current_sample = @ + 1]]
    ELSE [item |-> <<>>, it |-> it]

\* The usize 2^64 - d for 0 < d <= 2^16, which no integer here can hold:
\* its four 16 bit digits, most significant first.
UsizeWrapped(d) == <<65535, 65535, 65535, 65536 - d>>

\* What the usize subtraction a - b makes of a size_hint, by build: the
\* difference; or, for a < b, a panic where overflow is checked (debug) and
\* the difference modulo 2^64 where it is not (release).
UsizeSubHint(a, b) ==
    IF a >= b THEN {<<a - b, <<a - b>> >>}
    ELSE {"panic", <<UsizeWrapped(b - a), <<UsizeWrapped(b - a)>> >>}

\* Variant: the hint is the end index.
SamplesSizeHintFromZero(it) == {<<it.samples_end, <<it.samples_end>> >>}

\* SamplesIterator::size_hint: the outcomes the build can produce, each
\* (remaining, Some(remaining)) or a panic.
SamplesSizeHint(it) == UsizeSubHint(it.samples_end, it.current_sample)

\* Variant: the channels are walked from the second one.
ChannelSamplesIntoIterFromOne(view) ==
    [current_sample |-> view.current_sample, current_channel |-> 1]

\* ChannelSamples::into_iter
ChannelSamplesIntoIter(view) ==
    [current_sample |-> view.current_sample, current_channel |-> 0]

\* ChannelSamplesIterator::next over the channel slices `buffers`: the
\* Option returned, a reference to the cell <<channel, sample>>, and the
\* iterator afterwards.
ChannelSamplesIteratorNext(it, buffers) ==
    IF it.current_channel < Len(buffers)
    THEN [item |-> << <<it.current_channel, it.current_sample>> >>,
          it   |-> [it EXCEPT !.current_channel = @ + 1]]
    ELSE [item |-> <<>>, it |-> it]

\* ChannelSamplesIterator::size_hint
ChannelSizeHint(it, buffers) == UsizeSubHint(Len(buffers), it.current_channel)

\* A buffer of c channels of n samples, and a SamplesIterator over its
\* indices start .. end - 1.
InitIter ==
    /\ sample_rate = AnalyzerNew(F32FromInt(44100)).sample_rate
    /\ fft_planner = AnalyzerNew(F32FromInt(44100)).fft_planner
    /\ given = F32FromInt(44100)
    /\ last = NoCall
    /\ prev = NoCall
    /\ ret = Returned("iter_samples", <<>>)
    /\ \E c \in 0 .. MaxChannels, n \in 0 .. MaxIterSamples :
          /\ buffer = [num_samples |-> n,
                       output_slices |-> [ch \in 1 .. c |-> Channel("click", n)]]
          /\ \E end \in 0 .. n, start \in 0 .. n :
                /\ start <= end
                /\ samples_iter = [current_sample |-> start, samples_end |-> end]
                /\ started = start
    /\ views = {}
    /\ chan_iters = {}
    /\ yielded = <<>>
    /\ nones = 0
    /\ handed = {}
    /\ again = {}

\* The caller calls next() on the SamplesIterator and keeps what it gets.
SamplesNext ==
    LET out == SamplesIteratorNext(samples_iter)
    IN  /\ samples_iter' = out.it
        /\ ret' = Returned("next", out.item)
        /\ IF out.item = <<>>
           THEN /\ nones' = IF nones < 2 THEN nones + 1 ELSE nones
                /\ UNCHANGED <<views, yielded>>
           ELSE /\ views' = views \cup {out.item[1]}
                /\ yielded' = Append(yielded, out.item[1].current_sample)
                /\ UNCHANGED nones
        /\ UNCHANGED <<sample_rate, fft_planner, buffer, given, last, prev,
                       chan_iters, started, handed, again>>

\* The caller drops a view it holds.
DropView(view) ==
    /\ view \in views
    /\ views' = views \ {view}
    /\ ret' = Returned("drop", <<>>)
    /\ UNCHANGED <<sample_rate, fft_planner, buffer, given, last, prev,
                   samples_iter, chan_iters, started, yielded, nones, handed, again>>

\* The caller turns a view it holds into an iterator over the channels.
\* Beside the iterator the model keeps, as history, the view it came from,
\* the cells it handed out and whether it has returned None.
IntoIter(view) ==
    /\ view \in views
    /\ views' = views \ {view}
    /\ chan_iters' = chan_iters \cup
          {[it |-> ChannelSamplesIntoIter(view), view |-> view, out |-> <<>>,
            ended |-> FALSE]}
    /\ ret' = Returned("into_iter", <<>>)
    /\ UNCHANGED <<sample_rate, fft_planner, buffer, given, last, prev,
                   samples_iter, started, yielded, nones, handed, again>>

\* The caller calls next() on a channel iterator it holds and keeps the
\* reference.
ChannelNext(held) ==
    LET out == ChannelSamplesIteratorNext(held.it, AsSlice(buffer))
    IN  /\ held \in chan_iters
        /\ chan_iters' = (chan_iters \ {held}) \cup
              {[held EXCEPT !.it = out.it,
                            !.out = @ \o out.item,
                            !.ended = @ \/ out.item = <<>>]}
        /\ handed' = handed \cup {out.item[j] : j \in 1 .. Len(out.item)}
        /\ again' = again \cup ({out.item[j] : j \in 1 .. Len(out.item)} \cap handed)
        /\ ret' = Returned("channel_next", out.item)
        /\ UNCHANGED <<sample_rate, fft_planner, buffer, given, last, prev,
                       samples_iter, views, started, yielded, nones>>

IterCalls ==
    \/ SamplesNext
    \/ \E view \in views : DropView(view)
    \/ \E view \in views : IntoIter(view)
    \/ \E held \in chan_iters : ChannelNext(held)

SpecIter == InitIter /\ [][IterCalls]_vars

(***************************************************************************)
(* Properties                                                              *)
(***************************************************************************)

Returned_process == ret.op = "process"

NumChannels == Len(buffer.output_slices)

NumSamples == buffer.num_samples

Silent(channel) == \A j \in 1 .. Len(channel) : channel[j] = F32Zero

\* The odd part of a positive integer.
RECURSIVE OddPart(_)
OddPart(n) == IF n % 2 = 0 THEN OddPart(n \div 2) ELSE n

\* f = <<m, e>> against the exact quotient i * rate / n, both scaled by n and
\* by the power of two that makes them integers: <<f * n, i * rate>>.
Scaled(f, i, rate, n) ==
    LET down == IF f[2] < 0 THEN -f[2] ELSE 0
        up   == IF f[2] > 0 THEN f[2] ELSE 0
    IN  <<f[1] * (2 ^ up) * n, i * F32ToInt(rate) * (2 ^ down)>>

\* C1: process returns one result per channel, and in each result
\* frequencies and magnitudes both have N / 2 entries (integer division), on
\* every call, whatever block sizes the earlier calls had.
ResultShape ==
    Returned_process =>
        /\ Len(ret.results) = NumChannels
        /\ \A c \in 1 .. Len(ret.results) :
              /\ Len(ret.results[c].frequencies) = NumSamples \div 2
              /\ Len(ret.results[c].magnitudes) = NumSamples \div 2

ResultShapeWitness ==
    /\ Returned_process
    /\ NumChannels = 2
    /\ NumSamples = 9
    /\ {1, 4} \subseteq fft_planner
    /\ Len(ret.results) = 2
    /\ Len(ret.results[2].magnitudes) = 4

\* C2: a process call leaves every sample of every channel as it was.
ProcessKeepsSamples == [][ret'.op = "process" => buffer' = buffer]_vars

ProcessKeepsSamplesWitness ==
    /\ Returned_process
    /\ NumSamples = 9
    /\ \E c \in 1 .. NumChannels :
          /\ ~Silent(buffer.output_slices[c])
          /\ ret.results[c].magnitudes[2] # F32Zero

\* C3: process on a buffer of no channels returns the empty sequence and no
\* error, at any sample rate and after any calls.
NoChannelsNoResults ==
    (Returned_process /\ NumChannels = 0) =>
        (ret.err = "none" /\ ret.results = <<>>)

NoChannelsNoResultsWitness ==
    /\ Returned_process
    /\ buffer = BufferDefault
    /\ ret.results = <<>>
    /\ 9 \in fft_planner
    /\ sample_rate = F32FromInt(48000)

\* C4 (as claimed): process on a buffer of at least one channel and no
\* samples fails with InvalidBufferLength and produces no result (stated
\* here for a positive sample rate).
ZeroLengthRefused ==
    (Returned_process /\ NumChannels >= 1 /\ NumSamples = 0 /\ sample_rate[1] > 0) =>
        (ret.err = "InvalidBufferLength" /\ ret.results = <<>>)

\* C5 (as claimed): the sample rate is positive in every state.
SampleRatePositive == SampleRate[1] > 0

\* C6 (as claimed): frequencies[i] is i * sample_rate / N, adjacent bins
\* differ by exactly sample_rate / N, and the last bin is
\* (N/2 - 1) * sample_rate / N, in the f32 arithmetic of the results.
FrequencySpacingExact ==
    Returned_process =>
        \A c \in 1 .. Len(ret.results) :
            LET f    == ret.results[c].frequencies
                n    == F32FromInt(NumSamples)
                step == F32Div(sample_rate, n)
            IN  /\ \A i \in 1 .. Len(f) :
                       f[i] = F32Div(F32Mul(F32FromInt(i - 1), sample_rate), n)
                /\ \A i \in 1 .. Len(f) - 1 : F32Sub(f[i + 1], f[i]) = step
                /\ Len(f) >= 1 =>
                       f[Len(f)] = F32Div(F32Mul(F32FromInt(NumSamples \div 2 - 1),
                                                 sample_rate), n)

\* C6 (amended): frequencies[i] is the quotient i * sample_rate / N rounded
\* to f32: within relative error 2^-24 of it, equal to it whenever the
\* quotient is an f32 (N's odd part divides i * sample_rate), and
\* frequencies[1] - frequencies[0] is the f32 quotient sample_rate / N.
FrequencyRounded ==
    Returned_process =>
        \A c \in 1 .. Len(ret.results) :
            LET f == ret.results[c].frequencies IN
            /\ \A i \in 1 .. Len(f) :
                  LET sc == Scaled(f[i], i - 1, sample_rate, NumSamples) IN
                  /\ Abs(sc[1] - sc[2]) <= Abs(sc[2]) \div (2 ^ 24)
                  /\ ((i - 1) * F32ToInt(sample_rate)) % OddPart(NumSamples) = 0
                        => sc[1] = sc[2]
            /\ Len(f) >= 2 =>
                  F32Sub(f[2], f[1]) = F32Div(sample_rate, F32FromInt(NumSamples))

FrequencyRoundedWitness ==
    /\ Returned_process
    /\ NumSamples = 9
    /\ NumChannels >= 1
    /\ sample_rate = F32FromInt(48000)
    /\ LET f == ret.results[1].frequencies IN
          /\ f[4] = F32FromInt(16000)
          /\ F32Sub(f[4], f[3]) # F32Div(sample_rate, F32FromInt(9))

\* C7 (as claimed, for blocks of at least one sample and a positive sample
\* rate): every result has frequencies[0] = 0.0, and its frequencies and
\* magnitudes are not empty.
DcBinAlways ==
    (Returned_process /\ NumSamples >= 1 /\ sample_rate[1] > 0) =>
        \A c \in 1 .. Len(ret.results) :
            /\ Len(ret.results[c].frequencies) >= 1
            /\ Len(ret.results[c].magnitudes) >= 1
            /\ ret.results[c].frequencies[1] = F32Zero

\* C7 (amended): for blocks of at least two samples every result has
\* frequencies[0] = 0.0, and its frequencies and magnitudes are not empty.
DcBinFromTwoSamples ==
    (Returned_process /\ NumSamples >= 2) =>
        \A c \in 1 .. Len(ret.results) :
            /\ Len(ret.results[c].frequencies) >= 1
            /\ Len(ret.results[c].magnitudes) >= 1
            /\ ret.results[c].frequencies[1] = F32Zero

DcBinFromTwoSamplesWitness ==
    /\ Returned_process
    /\ NumChannels = 1
    /\ NumSamples = 4
    /\ sample_rate = F32FromInt(44100)
    /\ ~Silent(buffer.output_slices[1])
    /\ ret.results[1].frequencies = <<F32Zero, F32FromInt(11025)>>

\* C8: two process calls on the same contents, whatever set_sample_rate did
\* in between, return the same magnitudes channel by channel.
MagnitudesIgnoreRate ==
    (Returned_process /\ prev.made) =>
        /\ Len(ret.results) = Len(prev.results)
        /\ \A c \in 1 .. Len(ret.results) :
              ret.results[c].magnitudes = prev.results[c].magnitudes

MagnitudesIgnoreRateWitness ==
    /\ Returned_process
    /\ prev.made
    /\ prev.rate = F32FromInt(44100)
    /\ sample_rate = F32FromInt(48000)
    /\ NumSamples = 9
    /\ \E c \in 1 .. Len(ret.results) :
          /\ ret.results[c].magnitudes[2] # F32Zero
          /\ ret.results[c].frequencies # prev.results[c].frequencies

\* C9: the sample rate is the one given to the latest new or
\* set_sample_rate, process leaves it alone, and the frequencies of a
\* process call are those of the rate current at the call.
RateIsLatestGiven ==
    /\ SampleRate = given
    /\ Returned_process =>
          /\ last.made /\ last.rate = given /\ last.results = ret.results
          /\ \A c \in 1 .. Len(ret.results) :
                LET f == ret.results[c].frequencies IN
                Len(f) >= 2 => f[2] = F32Div(given, F32FromInt(NumSamples))

RateIsLatestGivenWitness ==
    /\ Returned_process
    /\ prev.made
    /\ prev.rate # given
    /\ given = F32FromInt(44100)
    /\ NumSamples = 4
    /\ NumChannels = 2
    /\ ret.results[2].frequencies[2] = F32FromInt(11025)
    /\ prev.results[2].frequencies[2] = F32FromInt(12000)

\* C10: a channel whose samples are all zero gets magnitudes that are all
\* zero, for every block size and sample rate.
SilenceHasNoMagnitude ==
    Returned_process =>
        \A c \in 1 .. Len(ret.results) :
            Silent(buffer.output_slices[c]) =>
                \A i \in 1 .. Len(ret.results[c].magnitudes) :
                    ret.results[c].magnitudes[i] = F32Zero

SilenceHasNoMagnitudeWitness ==
    /\ Returned_process
    /\ NumChannels = 2
    /\ NumSamples = 9
    /\ ~Silent(buffer.output_slices[1])
    /\ Silent(buffer.output_slices[2])
    /\ ret.results[1].magnitudes[2] # F32Zero
    /\ ret.results[2].magnitudes = <<F32Zero, F32Zero, F32Zero, F32Zero>>

\* C11 (as claimed): every magnitude of every result of process is >= 0.0,
\* whatever the samples are.
MagnitudesNonNegative ==
    Returned_process =>
        \A c \in 1 .. Len(ret.results) :
            \A i \in 1 .. Len(ret.results[c].magnitudes) :
                F32GeZero(ret.results[c].magnitudes[i])

HasNaN(channel) == \E j \in 1 .. Len(channel) : IsNaN(channel[j])

\* C11 (amended): every magnitude of a channel whose samples are all numbers
\* is >= 0.0, and every magnitude of a channel holding a NaN sample is NaN.
MagnitudesOfNumbersNonNegative ==
    Returned_process =>
        \A c \in 1 .. Len(ret.results) :
            \A i \in 1 .. Len(ret.results[c].magnitudes) :
                IF HasNaN(buffer.output_slices[c])
                THEN IsNaN(ret.results[c].magnitudes[i])
                ELSE F32GeZero(ret.results[c].magnitudes[i])

MagnitudesOfNumbersNonNegativeWitness ==
    /\ Returned_process
    /\ NumSamples = 9
    /\ NumChannels = 2
    /\ HasNaN(buffer.output_slices[1])
    /\ IsNaN(ret.results[1].magnitudes[4])
    /\ \E j \in 1 .. NumSamples : buffer.output_slices[2][j][1] < 0
    /\ ret.results[2].magnitudes[1] = F32Zero
    /\ \A i \in 2 .. 4 : ret.results[2].magnitudes[i][1] > 0

\* SUM over the first j samples x[i] of x[i] * x[i + d], indices wrapping at
\* Len(x): the circular autocorrelation of integral samples at lag d.
RECURSIVE Correlation(_, _, _)
Correlation(x, d, j) ==
    IF j = 0 THEN 0
    ELSE Correlation(x, d, j - 1)
         + F32ToInt(x[j]) * F32ToInt(x[((j - 1 + d) % Len(x)) + 1])

\* cos(2 pi m / n) in units of 2^-24 for m = 0 .. n - 1 and the block sizes
\* n with bins, from the decimal expansions (cos 40 = 0.766044443118978,
\* cos 80 = 0.173648177666930, cos 160 = -0.939692620785908): a table of its
\* own, which no definition of the transform reads.
RefCosines(n) ==
    CASE n = 4 -> <<16777216, 0, -16777216, 0>>
      [] n = 9 -> <<16777216, 12852093, 2913333, -8388608, -15765426, -15765426, -8388608, 2913333, 12852093>>

\* SUM over the lags 0 .. d - 1 of the autocorrelation times
\* cos(2 pi k lag / N), in units of 2^-24: the squared modulus of bin k of
\* the unnormalized forward transform of x (the transform of the circular
\* autocorrelation is the power spectrum), in exact integers but for the
\* rounding of the cosines.
RECURSIVE RefPower(_, _, _)
RefPower(x, k, d) ==
    IF d = 0 THEN 0
    ELSE RefPower(x, k, d - 1)
         + Correlation(x, d - 1, Len(x)) * RefCosines(Len(x))[((k * (d - 1)) % Len(x)) + 1]

\* The integer part of a * 2^bits for an f32 a >= 0.
Fixed(a, bits) ==
    IF a[2] + bits >= 0 THEN a[1] * (2 ^ (a[2] + bits))
    ELSE IF a[2] + bits <= -31 THEN 0
    ELSE a[1] \div (2 ^ (-(a[2] + bits)))

OnlyChannel(buf, c) ==
    [num_samples |-> buf.num_samples, output_slices |-> <<buf.output_slices[c]>>]

\* C13: the results are in channel order, and results[c] comes from the
\* samples of channel c alone: it is the one result process returns for a
\* buffer that holds only channel c.
ResultsInChannelOrder ==
    Returned_process =>
        /\ Len(ret.results) = NumChannels
        /\ \A c \in 1 .. NumChannels :
              <<ret.results[c]>> =
                  AnalyzerProcess(sample_rate, fft_planner, OnlyChannel(buffer, c)).results

ResultsInChannelOrderWitness ==
    /\ Returned_process
    /\ NumChannels = 2
    /\ NumSamples = 9
    /\ Silent(buffer.output_slices[1])
    /\ ~Silent(buffer.output_slices[2])
    /\ ret.results[1].magnitudes[2] = F32Zero
    /\ ret.results[2].magnitudes[2] # F32Zero

\* What the latest call was, for the calls of the per-sample iteration.
Returned_next == ret.op = "next"

\* C14: the SamplesIterator yields one view per index, ascending from the
\* index it began with, never an index at or past samples_end, skipping and
\* repeating none; it returns None only once all of them are yielded.
YieldsEachIndexOnce ==
    /\ yielded = [i \in 1 .. Len(yielded) |-> started + i - 1]
    /\ \A i \in 1 .. Len(yielded) : yielded[i] < samples_iter.samples_end
    /\ nones > 0 => Len(yielded) = samples_iter.samples_end - started
    /\ (Returned_next /\ ret.results # <<>>) =>
          ret.results[1].current_sample = yielded[Len(yielded)]

YieldsEachIndexOnceWitness ==
    /\ Returned_next
    /\ ret.results = <<>>
    /\ nones = 1
    /\ started = 1
    /\ samples_iter.samples_end = 3
    /\ yielded = <<1, 2>>

\* C15 (as claimed): the caller holds at most one view at a time.
OneViewAlive == Cardinality(views) <= 1

\* C16: a ChannelSamplesIterator hands out one reference per channel, in
\* ascending channel order, each to the cell of its view's sample index;
\* its sample index stays the view's, and it returns None only after the
\* last channel.
ChannelsInOrderAtFixedIndex ==
    \A held \in chan_iters :
        /\ held.it.current_sample = held.view.current_sample
        /\ held.out = [j \in 1 .. Len(held.out) |-> <<j - 1, held.view.current_sample>>]
        /\ Len(held.out) <= NumChannels
        /\ held.ended => Len(held.out) = NumChannels

ChannelsInOrderAtFixedIndexWitness ==
    /\ NumChannels = 2
    /\ ret.op = "channel_next"
    /\ ret.results = <<>>
    /\ \E held \in chan_iters :
          /\ held.ended
          /\ held.out = << <<0, 1>>, <<1, 1>> >>

\* samples_end is within every channel.
EndWithinChannels ==
    \A c \in 1 .. NumChannels :
        samples_iter.samples_end <= Len(buffer.output_slices[c])

\* C17: while samples_end is within every channel, no cell is handed out
\* twice, and every cell handed out is a cell of the buffer: its channel is
\* below the channel count and its sample index below the channel's length.
CellsOnceAndInBounds ==
    EndWithinChannels =>
        /\ again = {}
        /\ \A cell \in handed :
              /\ cell[1] \in 0 .. NumChannels - 1
              /\ cell[2] \in 0 .. Len(buffer.output_slices[cell[1] + 1]) - 1

CellsOnceAndInBoundsWitness ==
    /\ NumChannels = 2
    /\ NumSamples = 3
    /\ started = 0
    /\ nones >= 1
    /\ views = {}
    /\ Cardinality(chan_iters) = 3
    /\ \A held \in chan_iters : held.ended
    /\ handed = (0 .. 1) \X (0 .. 2)

\* The number of views next() yields from the iterator `it` on.
RECURSIVE ViewsToCome(_)
ViewsToCome(it) ==
    IF SamplesIteratorNext(it).item = <<>> THEN 0
    ELSE 1 + ViewsToCome(SamplesIteratorNext(it).it)

\* C18: current_sample <= samples_end in every state, size_hint has the one
\* outcome (n, Some(n)) for n the number of views still to come, which is samples_end - current_sample,
\* and once next() has returned None every later call has returned None
\* and left the iterator where it was, at samples_end.
ExactSizeAndFused ==
    /\ samples_iter.current_sample <= samples_iter.samples_end
    /\ SamplesSizeHint(samples_iter) =
          {<<ViewsToCome(samples_iter), <<ViewsToCome(samples_iter)>> >>}
    /\ ViewsToCome(samples_iter) = samples_iter.samples_end - samples_iter.current_sample
    /\ nones > 0 =>
          /\ samples_iter.current_sample = samples_iter.samples_end
          /\ Len(yielded) = samples_iter.samples_end - started
          /\ Returned_next => ret.results = <<>>

ExactSizeAndFusedWitness ==
    /\ Returned_next
    /\ nones = 2
    /\ yielded = <<0, 1, 2>>
    /\ SamplesSizeHint(samples_iter) = {<<0, <<0>> >>}

\* C19: what process returns depends on the buffer and the current sample
\* rate alone: after any history of calls it is what a new analyzer of that
\* rate, with no plan cached, returns for the buffer, and what the previous
\* call on these contents returned if the rate was the same; only the
\* planner's cache grows.
ResultsFromBufferAndRate ==
    Returned_process =>
        /\ ret.results = AnalyzerProcess(AnalyzerNew(sample_rate).sample_rate,
                                         AnalyzerNew(sample_rate).fft_planner,
                                         buffer).results
        /\ (prev.made /\ prev.rate = sample_rate) => ret.results = prev.results
        /\ NumSamples \in fft_planner

ResultsFromBufferAndRateWitness ==
    /\ Returned_process
    /\ prev.made
    /\ prev.rate = sample_rate
    /\ fft_planner = {0, 1, 4, 9}
    /\ NumSamples = 4
    /\ NumChannels = 2
    /\ ~Silent(buffer.output_slices[2])
    /\ ret.results[2].magnitudes[2] # F32Zero

====
